---------------------------- MODULE Spec2Model ----------------------------
(***************************************************************************)
(* Model of src/cli.py: the scrape-html, scrape-pdf and scrape-all         *)
(* commands, the BaseScraper.run generator and the two scraper variants.   *)
(*                                                                         *)
(* Python strings are sequences of one-character strings, so that          *)
(* startswith, endswith, lower, basename, join and urljoin are computed.   *)
(* Python's None is the one-element sequence None, whose element is not a  *)
(* character.  A uuid4 is a fresh natural number.                          *)
(***************************************************************************)
EXTENDS Integers, Sequences, FiniteSets, TLC

(* ------------------------------ bounds -------------------------------- *)
\* most anchors the selector matches on one listing page
MaxLinks == 2
\* most paragraphs of an item page in the extract_content unit specification
MaxParas == 2

(* --------------------------- string helpers --------------------------- *)
None == <<"None">>

StartsWith(s, p) == Len(s) >= Len(p) /\ SubSeq(s, 1, Len(p)) = p

EndsWith(s, p) == Len(s) >= Len(p) /\ SubSeq(s, Len(s) - Len(p) + 1, Len(s)) = p

\* str.lower() on the characters that occur in the modelled file names
LowerChar(c) ==
  CASE c = "P" -> "p" [] c = "D" -> "d" [] c = "F" -> "f" [] c = "B" -> "b"
    [] OTHER -> c

Lower(s) == [i \in 1..Len(s) |-> LowerChar(s[i])]

\* code points of the characters that occur in the modelled file names
Ord(c) ==
  CASE c = "." -> 46 [] c = "B" -> 66 [] c = "D" -> 68 [] c = "F" -> 70
    [] c = "P" -> 80 [] c = "a" -> 97 [] c = "b" -> 98 [] c = "c" -> 99
    [] c = "d" -> 100 [] c = "f" -> 102 [] c = "p" -> 112 [] c = "t" -> 116
    [] c = "x" -> 120 [] OTHER -> 0

\* Python's str < str: lexicographic on code points
RECURSIVE StrLess(_, _)
StrLess(a, b) ==
  IF b = <<>> THEN FALSE
  ELSE IF a = <<>> THEN TRUE
  ELSE IF Ord(Head(a)) # Ord(Head(b)) THEN Ord(Head(a)) < Ord(Head(b))
  ELSE StrLess(Tail(a), Tail(b))

\* sorted(os.listdir(...)) of a set of distinct names
Sorted(S) ==
  CHOOSE s \in [1..Cardinality(S) -> S] :
    \A i, j \in 1..Cardinality(S) : i < j => StrLess(s[i], s[j])

\* str.strip(): what get_text(strip=True) does to a single text node
RECURSIVE LStrip(_)
LStrip(s) == IF s # <<>> /\ Head(s) = " " THEN LStrip(Tail(s)) ELSE s

RECURSIVE RStrip(_)
RStrip(s) ==
  IF s # <<>> /\ s[Len(s)] = " " THEN RStrip(SubSeq(s, 1, Len(s) - 1)) ELSE s

Strip(s) == RStrip(LStrip(s))

\* "\n\n".join(parts)
RECURSIVE Join(_)
Join(parts) ==
  IF parts = <<>> THEN <<>>
  ELSE IF Len(parts) = 1 THEN parts[1]
  ELSE parts[1] \o <<"\n", "\n">> \o Join(Tail(parts))

\* index of the last "/" of s, 0 if there is none
LastSlash(s) ==
  IF \E i \in 1..Len(s) : s[i] = "/"
  THEN CHOOSE i \in 1..Len(s) :
         s[i] = "/" /\ \A j \in (i + 1)..Len(s) : s[j] # "/"
  ELSE 0

\* faulty variant of Basename: the directory is kept
BasenameKeepDir(path) == path

\* os.path.basename(path)
Basename(path) == SubSeq(path, LastSlash(path) + 1, Len(path))

\* os.path.join(folder, fname) for a relative fname
PathJoin(folder, fname) == folder \o <<"/">> \o fname

(* ------------------------------ urljoin ------------------------------- *)
\* position of the first occurrence of character c in s, Len(s)+1 if none
FirstIndex(s, c) ==
  IF \E i \in 1..Len(s) : s[i] = c
  THEN CHOOSE i \in 1..Len(s) : s[i] = c /\ \A j \in 1..(i - 1) : s[j] # c
  ELSE Len(s) + 1

\* urlsplit finds a scheme: a ":" preceded only by scheme characters
HasScheme(u) ==
  LET i == FirstIndex(u, ":")
  IN  /\ i > 1
      /\ i <= Len(u)
      /\ \A j \in 1..(i - 1) : u[j] \notin {"/", "#", "?", ".", " "}

\* the base URL without its fragment
DropFragment(u) == SubSeq(u, 1, FirstIndex(u, "#") - 1)

\* scheme://netloc of an absolute URL
Origin(u) ==
  LET b    == DropFragment(u)
      s    == FirstIndex(b, ":") + 2
      rest == SubSeq(b, s + 1, Len(b))
  IN  SubSeq(b, 1, s + FirstIndex(rest, "/") - 1)

\* requests.compat.urljoin(base, url) for a non-empty url without dot
\* segments, query or fragment
UrlJoin(base, url) ==
  IF HasScheme(url) THEN url
  ELSE IF StartsWith(url, <<"/">>) THEN Origin(base) \o url
  ELSE LET b == DropFragment(base)
       IN  SubSeq(b, 1, LastSlash(b)) \o url

\* requests.get accepts only URLs of a mounted scheme; anything else raises
\* MissingSchema / InvalidSchema before any network traffic
ValidUrl(u) ==
  \/ StartsWith(u, <<"h","t","t","p",":","/","/">>)
  \/ StartsWith(u, <<"h","t","t","p","s",":","/","/">>)

(* ------------------------- program constants -------------------------- *)
\* "https://interviewing.io/blog"
UrlBlog == <<"h","t","t","p","s",":","/","/","i","n","t","e","r","v","i","e","w","i","n","g",".","i","o","/","b","l","o","g">>
\* "https://interviewing.io/topics#companies"
UrlTopics == <<"h","t","t","p","s",":","/","/","i","n","t","e","r","v","i","e","w","i","n","g",".","i","o","/","t","o","p","i","c","s","#","c","o","m","p","a","n","i","e","s">>
\* "https://interviewing.io/learn#interview-guides"
UrlLearn == <<"h","t","t","p","s",":","/","/","i","n","t","e","r","v","i","e","w","i","n","g",".","i","o","/","l","e","a","r","n","#","i","n","t","e","r","v","i","e","w","-","g","u","i","d","e","s">>
\* "https://nilmamano.com/blog/category/dsa"
UrlNil == <<"h","t","t","p","s",":","/","/","n","i","l","m","a","m","a","n","o",".","c","o","m","/","b","l","o","g","/","c","a","t","e","g","o","r","y","/","d","s","a">>

PREDEFINED_SOURCES ==
  << [name |-> "interviewing_blog", type |-> "html", start_url |-> UrlBlog,
      list_sel |-> "h1", link_sel |-> "a"],
     [name |-> "company_guides", type |-> "html", start_url |-> UrlTopics,
      list_sel |-> ".markdown-content", link_sel |-> "a[href*='/topics/']"],
     [name |-> "interview_guides", type |-> "html", start_url |-> UrlLearn,
      list_sel |-> ".markdown-content", link_sel |-> "a[href*='/learn/']"],
     [name |-> "nil_dsablog", type |-> "html", start_url |-> UrlNil,
      list_sel |-> "article", link_sel |-> "a"] >>

\* "data/pdfs"
PDF_FOLDER == <<"d","a","t","a","/","p","d","f","s">>

(* ------------------------------ scrapers ------------------------------ *)
NoScraper == [kind |-> "none"]

HtmlScraper(start_url, list_selector, link_selector) ==
  [kind |-> "html", start_url |-> start_url,
   list_selector |-> list_selector, link_selector |-> link_selector]

PDFScraper(pdf_path) == [kind |-> "pdf", pdf_path |-> pdf_path]

\* list_pages of either variant
ListPages(self) ==
  IF self.kind = "html" THEN <<self.start_url>> ELSE <<self.pdf_path>>

\* faulty variant of HtmlParseItems: a URL already collected is dropped
RECURSIVE HtmlParseItemsDedup(_, _)
HtmlParseItemsDedup(self, anchors) ==
  IF anchors = <<>> THEN <<>>
  ELSE LET href == anchors[Len(anchors)]
           init == HtmlParseItemsDedup(self, SubSeq(anchors, 1, Len(anchors) - 1))
           url  == IF StartsWith(href, <<"h","t","t","p">>) THEN href
                   ELSE UrlJoin(self.start_url, href)
       IN  IF href # None /\ href # <<>> /\ \A i \in 1..Len(init) : init[i] # url
           THEN Append(init, url)
           ELSE init

\* HtmlScraper.parse_items on the anchors matched by
\* soup.select(f"{list_selector} {link_selector}"), each given by the value
\* of a.get("href")
RECURSIVE HtmlParseItems(_, _)
HtmlParseItems(self, anchors) ==
  IF anchors = <<>> THEN <<>>
  ELSE LET href == Head(anchors)
           rest == HtmlParseItems(self, Tail(anchors))
       IN  IF href # None /\ href # <<>>
           THEN << IF StartsWith(href, <<"h","t","t","p">>) THEN href
                   ELSE UrlJoin(self.start_url, href) >> \o rest
           ELSE rest

\* PDFScraper.parse_items: the page content is not looked at
PdfParseItems(self, page_content) == <<self.pdf_path>>

ParseItems(self, page_content) ==
  IF self.kind = "html" THEN HtmlParseItems(self, page_content.anchors)
  ELSE PdfParseItems(self, page_content)

(* An item page as BeautifulSoup sees it: the first h1, the first time     *)
(* element, the first .author element, and the paragraphs selected by      *)
(* "article p, .post-content p, .content p", in document order.            *)
NoElem == [present |-> FALSE, text |-> <<>>]

Elem(text) == [present |-> TRUE, text |-> text]

NoTime == [present |-> FALSE, has_datetime |-> FALSE, datetime |-> <<>>]

TimeTag(has, dt) == [present |-> TRUE, has_datetime |-> has, datetime |-> dt]

HtmlPage(h1, time, author, paras) ==
  [kind |-> "page", h1 |-> h1, time |-> time, author |-> author, paras |-> paras]

\* faulty variant of TextOrNone: a missing element gives the empty string
TextOrEmpty(elem) == Strip(elem.text)

\* soup.find(...).get_text(strip=True) if soup.find(...) else None
TextOrNone(elem) == IF elem.present THEN Strip(elem.text) ELSE None

\* HtmlScraper.extract_content after fetch_page(item_url) returned html
HtmlExtractContent(self, item_url, html, id) ==
  LET title   == TextOrNone(html.h1)
      date    == IF html.time.present /\ html.time.has_datetime
                 THEN html.time.datetime ELSE None
      author  == TextOrNone(html.author)
      paragraphs == [i \in 1..Len(html.paras) |-> Strip(html.paras[i])]
      content == Join(paragraphs)
  IN  [id |-> id, source |-> self.start_url, url |-> item_url,
       title |-> title, author |-> author, date |-> date, content |-> content]

(* A PDF file as pdfminer sees it: malformed, or well formed with a text.  *)
PdfFile(ok, text) == [kind |-> "file", ok |-> ok, text |-> text]

\* PDFScraper.extract_content after extract_text(item) returned text
PdfExtractContent(item, text, id) ==
  [id |-> id, source |-> Basename(item), content |-> text]

(* ----------------------------- environment ---------------------------- *)
\* values of a.get("href"): absolute, root-relative, relative, a relative
\* name that begins with "http", the empty string, no href attribute
HrefAbs == <<"h","t","t","p","s",":","/","/","x",".","i","o","/","p">>
HrefRoot == <<"/","y">>
HrefRel == <<"z">>
HrefHttpRel == <<"h","t","t","p","z">>

Hrefs == {HrefAbs, HrefRoot, HrefRel, HrefHttpRel, <<>>, None}

BarePage == HtmlPage(NoElem, NoTime, NoElem, <<>>)
PartialPage == HtmlPage(NoElem, TimeTag(FALSE, <<>>), Elem(<<"A"," ">>), << <<"P">> >>)
FullPage ==
  HtmlPage(Elem(<<" ","T"," ">>), TimeTag(TRUE, <<"D">>), Elem(<<"A">>),
           << <<"P">>, <<" ","Q"," ">> >>)

ItemPages == {BarePage, PartialPage, FullPage}

\* every sequence over S of length at most n
SeqsUpTo(S, n) == UNION {[1..k -> S] : k \in 0..n}

\* the listing pages and item pages the web may serve a command: the single
\* source command sees every kind of href and page, the catalog run a
\* reduced set
ListingPages(c) ==
  {[kind |-> "listing", anchors |-> a] :
     a \in SeqsUpTo(IF c = "all" THEN {HrefRoot} ELSE Hrefs, MaxLinks)}

PagesServed(c) == IF c = "all" THEN {FullPage} ELSE ItemPages

\* files a PDF path may hold: malformed, without text, with text
PdfFiles == {PdfFile(FALSE, <<>>), PdfFile(TRUE, <<>>), PdfFile(TRUE, <<"X">>)}

\* names os.listdir(PDF_FOLDER) may return
FileNames == {<<"a",".","p","d","f">>, <<"B",".","P","D","F">>, <<"c",".","t","x","t">>}

\* arguments of the single source commands
StartUrls == {UrlBlog, UrlTopics}
PdfPaths == {<<"d","a","t","a","/","p","d","f","s","/","a",".","p","d","f">>, <<"x",".","p","d","f">>}

(* -------------------------------- state ------------------------------- *)
VARIABLES
  cmd,        \* the command invoked: "html", "pdf", "all", "unit"
  arg,        \* its argument (start_url or pdf_path)
  pc,         \* position of the command and of the generator it drives
  scraper,    \* the scraper instance being run
  pages,      \* result of list_pages(), and the index of the current page
  pageIdx,
  content,    \* result of fetch_page(page)
  items,      \* result of parse_items(content), and the current index
  itemIdx,
  pending,    \* the record the generator has yielded and not yet echoed
  out,        \* lines written to standard output
  stderr,     \* the traceback of the uncaught exception, if any
  srcIdx,     \* scrape_all: index into PREDEFINED_SOURCES
  pdfList,    \* scrape_all: sorted(os.listdir(PDF_FOLDER)), and its index
  pdfIdx,
  nextId      \* the next fresh uuid

vars == <<cmd, arg, pc, scraper, pages, pageIdx, content, items, itemIdx,
          pending, out, stderr, srcIdx, pdfList, pdfIdx, nextId>>

NoContent == [kind |-> "none"]
NoRecord == [kind |-> "none"]

\* typer.echo(json.dumps(rec, ensure_ascii=False)): one line holding the
\* JSON object rec
JsonLine(rec) == [kind |-> "json", obj |-> rec]

\* typer.echo(text): one line of plain text
TextLine(text) == [kind |-> "text", text |-> text]

\* faulty variant of Echo: the line is held back instead of written
EchoBuffered(stream, line) == stream

\* typer.echo(line): the line is written and flushed at once

Echo(stream, line) == Append(stream, line)

Init ==
  /\ cmd \in {"html", "pdf", "all"}
  /\ arg \in (IF cmd = "html" THEN StartUrls
              ELSE IF cmd = "pdf" THEN PdfPaths ELSE {<<>>})
  /\ pc = "start"
  /\ scraper = NoScraper
  /\ pages = <<>>
  /\ pageIdx = 1
  /\ content = NoContent
  /\ items = <<>>
  /\ itemIdx = 1
  /\ pending = NoRecord
  /\ out = <<>>
  /\ stderr = <<>>
  /\ srcIdx = 1
  /\ pdfList = <<>>
  /\ pdfIdx = 1
  /\ nextId = 1

runVars == <<pages, pageIdx, content, items, itemIdx, pending>>
allVars == <<srcIdx, pdfList, pdfIdx>>

(* ------------------------- BaseScraper.run ---------------------------- *)
\* faulty variant of NthItem: the items are walked backwards
NthItemFromEnd(its, i) == its[Len(its) + 1 - i]

\* the item the inner for loop hands to extract_content on its i-th turn
NthItem(its, i) == its[i]

\* the generator is entered: list_pages()
RunStart ==
  /\ pc = "run"
  /\ pages' = ListPages(scraper)
  /\ pageIdx' = 1
  /\ pc' = "page"
  /\ UNCHANGED <<cmd, arg, scraper, content, items, itemIdx, pending, out,
                 stderr, allVars, nextId>>

\* the uncaught exception leaves the generator and the command; the
\* interpreter prints the traceback on standard error and exits
Raise(error, locator) ==
  /\ pc' = "crashed"
  /\ stderr' = Append(stderr, [error |-> error, locator |-> locator])

\* fetch_page(page) returns: requests.get + raise_for_status succeeded, or
\* open + read succeeded
FetchPageOk ==
  /\ pc = "page"
  /\ pageIdx <= Len(pages)
  /\ IF scraper.kind = "html"
     THEN /\ ValidUrl(pages[pageIdx])
          /\ content' \in ListingPages(cmd)
     ELSE content' \in PdfFiles
  /\ pc' = "parse"
  /\ UNCHANGED <<cmd, arg, scraper, pages, pageIdx, items, itemIdx, pending,
                 out, stderr, allVars, nextId>>

\* fetch_page(page) raises: network error, non-2xx status, missing file
FetchPageFail ==
  /\ pc = "page"
  /\ pageIdx <= Len(pages)
  /\ Raise("FetchError", pages[pageIdx])
  /\ UNCHANGED <<cmd, arg, scraper, runVars, out, allVars, nextId>>

\* parse_items(content)
ParseStep ==
  /\ pc = "parse"
  /\ items' = ParseItems(scraper, content)
  /\ itemIdx' = 1
  /\ pc' = "item"
  /\ UNCHANGED <<cmd, arg, scraper, pages, pageIdx, content, pending, out,
                 stderr, allVars, nextId>>

\* extract_content(item) returns a record, which the generator yields
ExtractOk ==
  /\ pc = "item"
  /\ itemIdx <= Len(items)
  /\ IF scraper.kind = "html"
     THEN /\ ValidUrl(NthItem(items, itemIdx))
          /\ \E html \in PagesServed(cmd) :
               pending' = HtmlExtractContent(scraper, NthItem(items, itemIdx),
                                             html, nextId)
     ELSE /\ content.ok
          /\ pending' = PdfExtractContent(NthItem(items, itemIdx),
                                          content.text, nextId)
  /\ nextId' = nextId + 1
  /\ pc' = "emit"
  /\ UNCHANGED <<cmd, arg, scraper, pages, pageIdx, content, items, itemIdx,
                 out, stderr, allVars>>

\* extract_content(item) raises: the item's fetch fails (always, for a URL
\* requests rejects), or extract_text fails on a malformed PDF
ExtractFail ==
  /\ pc = "item"
  /\ itemIdx <= Len(items)
  /\ scraper.kind = "pdf" => ~content.ok
  /\ Raise(IF scraper.kind = "html" THEN "FetchError" ELSE "ParseError",
           NthItem(items, itemIdx))
  /\ UNCHANGED <<cmd, arg, scraper, runVars, out, allVars, nextId>>

\* the consumer's loop body: typer.echo(json.dumps(rec)), then the
\* generator is resumed
EmitRecord ==
  /\ pc = "emit"
  /\ out' = Echo(out, JsonLine(pending))
  /\ pending' = NoRecord
  /\ itemIdx' = itemIdx + 1
  /\ pc' = "item"
  /\ UNCHANGED <<cmd, arg, scraper, pages, pageIdx, content, items, stderr,
                 allVars, nextId>>

\* the inner loop is exhausted: next page
NextPage ==
  /\ pc = "item"
  /\ itemIdx > Len(items)
  /\ pageIdx' = pageIdx + 1
  /\ pc' = "page"
  /\ UNCHANGED <<cmd, arg, scraper, pages, content, items, itemIdx, pending,
                 out, stderr, allVars, nextId>>

\* the outer loop is exhausted: the generator returns to the command
RunReturn ==
  /\ pc = "page"
  /\ pageIdx > Len(pages)
  /\ IF cmd = "all"
     THEN IF scraper.kind = "html"
          THEN /\ srcIdx' = srcIdx + 1
               /\ pc' = "src_loop"
               /\ UNCHANGED <<pdfList, pdfIdx>>
          ELSE /\ pdfIdx' = pdfIdx + 1
               /\ pc' = "pdf_loop"
               /\ UNCHANGED <<srcIdx, pdfList>>
     ELSE /\ pc' = "done"
          /\ UNCHANGED allVars
  /\ UNCHANGED <<cmd, arg, scraper, runVars, out, stderr, nextId>>

(* ------------------------------ commands ------------------------------ *)
\* scrape_html(start_url) with the default selectors
ScrapeHtml ==
  /\ pc = "start"
  /\ cmd = "html"
  /\ scraper' = HtmlScraper(arg, "article", "a")
  /\ pc' = "run"
  /\ UNCHANGED <<cmd, arg, runVars, out, stderr, allVars, nextId>>

\* scrape_pdf(pdf_path)
ScrapePdf ==
  /\ pc = "start"
  /\ cmd = "pdf"
  /\ scraper' = PDFScraper(arg)
  /\ pc' = "run"
  /\ UNCHANGED <<cmd, arg, runVars, out, stderr, allVars, nextId>>

\* scrape_all() is entered
ScrapeAll ==
  /\ pc = "start"
  /\ cmd = "all"
  /\ pc' = "src_loop"
  /\ UNCHANGED <<cmd, arg, scraper, runVars, out, stderr, allVars, nextId>>

SourceMarker(src) ==
  TextLine(<<"--- SCRAPING ", src.name, " (">> \o src.start_url \o <<") ---">>)

\* one iteration of the loop over PREDEFINED_SOURCES
ScrapeAllSource ==
  /\ pc = "src_loop"
  /\ srcIdx <= Len(PREDEFINED_SOURCES)
  /\ LET src == PREDEFINED_SOURCES[srcIdx]
     IN  /\ out' = Echo(out, SourceMarker(src))
         /\ scraper' = HtmlScraper(src.start_url, src.list_sel, src.link_sel)
  /\ pc' = "run"
  /\ UNCHANGED <<cmd, arg, runVars, stderr, allVars, nextId>>

\* the loop over PREDEFINED_SOURCES ends; os.path.isdir(PDF_FOLDER) and, if
\* it is a directory, sorted(os.listdir(PDF_FOLDER))
ScrapeAllPdfFolder ==
  /\ pc = "src_loop"
  /\ srcIdx > Len(PREDEFINED_SOURCES)
  /\ \/ /\ \E names \in SUBSET FileNames : pdfList' = Sorted(names)
        /\ pdfIdx' = 1
        /\ pc' = "pdf_loop"
        /\ out' = out
     \/ /\ out' = Echo(out, TextLine(<<"PDF folder not found: ">> \o PDF_FOLDER))
        /\ pc' = "done"
        /\ UNCHANGED <<pdfList, pdfIdx>>
  /\ UNCHANGED <<cmd, arg, scraper, runVars, stderr, srcIdx, nextId>>

IsPdfName(fname) == EndsWith(Lower(fname), <<".","p","d","f">>)

PdfMarker(fname) == TextLine(<<"--- SCRAPING PDF ">> \o fname \o <<" ---">>)

\* one iteration of the loop over the sorted names: a PDF is scraped
ScrapeAllPdf ==
  /\ pc = "pdf_loop"
  /\ pdfIdx <= Len(pdfList)
  /\ IsPdfName(pdfList[pdfIdx])
  /\ out' = Echo(out, PdfMarker(pdfList[pdfIdx]))
  /\ scraper' = PDFScraper(PathJoin(PDF_FOLDER, pdfList[pdfIdx]))
  /\ pc' = "run"
  /\ UNCHANGED <<cmd, arg, runVars, stderr, allVars, nextId>>

\* one iteration of the loop over the sorted names: another file is skipped
ScrapeAllSkip ==
  /\ pc = "pdf_loop"
  /\ pdfIdx <= Len(pdfList)
  /\ ~IsPdfName(pdfList[pdfIdx])
  /\ pdfIdx' = pdfIdx + 1
  /\ UNCHANGED <<cmd, arg, pc, scraper, runVars, out, stderr, srcIdx, pdfList,
                 nextId>>

\* the loop over the sorted names ends, and scrape_all returns
ScrapeAllDone ==
  /\ pc = "pdf_loop"
  /\ pdfIdx > Len(pdfList)
  /\ pc' = "done"
  /\ UNCHANGED <<cmd, arg, scraper, runVars, out, stderr, allVars, nextId>>

Next ==
  \/ ScrapeHtml
  \/ ScrapePdf
  \/ ScrapeAll
  \/ ScrapeAllSource
  \/ ScrapeAllPdfFolder
  \/ ScrapeAllPdf
  \/ ScrapeAllSkip
  \/ ScrapeAllDone
  \/ RunStart
  \/ FetchPageOk
  \/ FetchPageFail
  \/ ParseStep
  \/ ExtractOk
  \/ ExtractFail
  \/ EmitRecord
  \/ NextPage
  \/ RunReturn

Spec == Init /\ [][Next]_vars

(* ------------- extract_content on every kind of item page ------------- *)
\* texts an element may hold: empty, plain, surrounded by white space
Texts == {<<>>, <<"T">>, <<" ","T"," ">>}

AllPages ==
  {HtmlPage(h1, time, author, paras) :
     h1 \in {NoElem} \cup {Elem(t) : t \in Texts},
     time \in {NoTime, TimeTag(FALSE, <<>>), TimeTag(TRUE, <<>>), TimeTag(TRUE, <<"D">>)},
     author \in {NoElem, Elem(<<"A">>)},
     paras \in SeqsUpTo({<<"P">>, <<" ","Q"," ">>}, MaxParas)}

InitExtract ==
  /\ cmd = "unit"
  /\ arg \in StartUrls
  /\ pc = "unit"
  /\ scraper = HtmlScraper(arg, "article", "a")
  /\ pages = <<>>
  /\ pageIdx = 1
  /\ content = NoContent
  /\ items \in {<<HrefAbs>>, <<UrlJoin(arg, HrefRel)>>}
  /\ itemIdx = 1
  /\ pending = NoRecord
  /\ out = <<>>
  /\ stderr = <<>>
  /\ srcIdx = 1
  /\ pdfList = <<>>
  /\ pdfIdx = 1
  /\ nextId = 1

\* one call of HtmlScraper.extract_content whose fetch_page returns html;
\* the page served is kept in content
ExtractUnit ==
  /\ pc = "unit"
  /\ \E html \in AllPages :
       /\ content' = html
       /\ pending' = HtmlExtractContent(scraper, NthItem(items, itemIdx),
                                        html, nextId)
  /\ nextId' = nextId + 1
  /\ pc' = "unit_done"
  /\ UNCHANGED <<cmd, arg, scraper, pages, pageIdx, items, itemIdx, out,
                 stderr, allVars>>

NextExtract == ExtractUnit

SpecExtract == InitExtract /\ [][NextExtract]_vars

(* ============================ properties ============================== *)
Range(s) == {s[i] : i \in 1..Len(s)}

IsPrefix(s, t) == Len(s) <= Len(t) /\ SubSeq(t, 1, Len(s)) = s

\* index of the last plain text line of a stream, 0 if there is none
LastTextIdx(stream) ==
  IF \E i \in 1..Len(stream) : stream[i].kind = "text"
  THEN CHOOSE i \in 1..Len(stream) :
         /\ stream[i].kind = "text"
         /\ \A j \in (i + 1)..Len(stream) : stream[j].kind # "text"
  ELSE 0

\* the records written since the current (or last) run began: scrape_all
\* writes a marker line before each run, the other commands run once
RunRecords ==
  LET k == LastTextIdx(out)
  IN  [i \in 1..(Len(out) - k) |-> out[k + i].obj]

\* the JSON objects of the whole stream, in order
JsonObjects(stream) ==
  LET js == SelectSeq(stream, LAMBDA l : l.kind = "json")
  IN  [i \in 1..Len(js) |-> js[i].obj]

\* the plain text lines of the whole stream, in order
TextLines(stream) == SelectSeq(stream, LAMBDA l : l.kind = "text")

\* record rec was extracted from item locator item by the current scraper
RecordOf(rec, item) ==
  IF scraper.kind = "html" THEN rec.url = item
  ELSE rec.source = Basename(item)

RecordKeys == {"id", "source", "url", "title", "author", "date", "content"}

\* a command has ended, normally or by the uncaught exception
Ended == pc \in {"done", "crashed"}

\* the last run, of an HTML source, ran to its end
HtmlRunComplete ==
  /\ scraper.kind = "html"
  /\ \/ cmd = "html" /\ pc = "done"
     \/ cmd = "all" /\ pc = "src_loop"

\* the last run, of a PDF source, ran to its end
PdfRunComplete ==
  /\ scraper.kind = "pdf"
  /\ pc \in {"done", "pdf_loop"}

\* the hrefs parse_items keeps, in document order
KeptHrefs(anchors) == SelectSeq(anchors, LAMBDA h : h # None /\ h # <<>>)

(* C1: when scrape_html has ended on a source whose listing page was       *)
(* fetched and enumerated, every item was attempted and the number of      *)
(* records written is the number of items minus the number of failed ones. *)
C1_PerItemIsolation ==
  (cmd = "html" /\ Ended /\ content.kind = "listing")
    => Len(RunRecords) = Len(items) - Len(stderr)

(* C2: when scrape_all has ended, it ended normally, every catalog source  *)
(* was started and every PDF name of the folder listing was started,       *)
(* whichever earlier sources failed.                                       *)
C2_SourceIsolation ==
  (cmd = "all" /\ Ended)
    => /\ pc = "done"
       /\ \A i \in 1..Len(PREDEFINED_SOURCES) :
            SourceMarker(PREDEFINED_SOURCES[i]) \in Range(out)
       /\ \A i \in 1..Len(pdfList) :
            IsPdfName(pdfList[i]) => PdfMarker(pdfList[i]) \in Range(out)

(* C3: at every moment of a run the records written so far belong, one by  *)
(* one and in order, to the first items parse_items returned: record k is  *)
(* the record of item k, so no record precedes that of an earlier item and *)
(* none belongs to a locator parse_items did not return.                   *)
C3_RecordOrder ==
  /\ Len(RunRecords) <= Len(items)
  /\ \A k \in 1..Len(RunRecords) : RecordOf(RunRecords[k], items[k])

C3_Witness ==
  /\ scraper.kind = "html"
  /\ Len(RunRecords) = 2
  /\ RunRecords[1].url # RunRecords[2].url

(* C4: when scrape_all has ended, its output is made of one segment per    *)
(* catalog source, in catalog order, followed by one segment per PDF name  *)
(* of the sorted folder listing, and every record lies in the segment of   *)
(* the source it was extracted from.                                       *)
C4_RunAllConcatenation ==
  (cmd = "all" /\ Ended)
    => LET n    == Len(PREDEFINED_SOURCES)
           text == TextLines(out)
           pdfs == SelectSeq(pdfList, IsPdfName)
       IN  /\ Len(text) >= n
           /\ \A i \in 1..n : text[i] = SourceMarker(PREDEFINED_SOURCES[i])
           /\ \/ SubSeq(text, n + 1, Len(text))
                   = [i \in 1..Len(pdfs) |-> PdfMarker(pdfs[i])]
              \/ SubSeq(text, n + 1, Len(text))
                   = <<TextLine(<<"PDF folder not found: ">> \o PDF_FOLDER)>>
           /\ \A i \in 1..Len(out) :
                out[i].kind = "json" =>
                  LET m == LastTextIdx(SubSeq(out, 1, i))
                      j == Len(TextLines(SubSeq(out, 1, m)))
                  IN  /\ j >= 1
                      /\ IF j <= n
                         THEN out[i].obj.source = PREDEFINED_SOURCES[j].start_url
                         ELSE out[i].obj.source = pdfs[j - n]

(* C5: every record written, by either scraper variant, has the seven keys *)
(* id, source, url, title, author, date, content, and its content is a     *)
(* string.                                                                 *)
C5_RecordShape ==
  \A i \in 1..Len(out) :
    out[i].kind = "json" =>
      /\ DOMAIN out[i].obj = RecordKeys
      /\ out[i].obj.content # None

(* C6: every line of standard output is a serialized record; nothing else  *)
(* is written to it.                                                       *)
C6_StreamPurity == \A i \in 1..Len(out) : out[i].kind = "json"

C8_PdfOneRecord ==
  /\ (scraper.kind = "pdf" /\ pc \in {"parse", "item", "emit"})
       => pages = <<scraper.pdf_path>>
  /\ (scraper.kind = "pdf" /\ pc \in {"item", "emit"})
       => items = <<scraper.pdf_path>>
  /\ (scraper.kind = "pdf" /\ pc = "crashed")
       => LET e == stderr[Len(stderr)]
          IN  \/ e.error = "FetchError"
              \/ e.error = "ParseError" /\ ~content.ok
  /\ PdfRunComplete
       => /\ content.ok
          /\ Len(RunRecords) = 1
          /\ RunRecords[1].content = content.text
          /\ LET path == scraper.pdf_path
                 name == RunRecords[1].source
             IN  /\ \A i \in 1..Len(name) : name[i] # "/"
                 /\ \/ path = name
                    \/ /\ Len(path) > Len(name)
                       /\ SubSeq(path, Len(path) - Len(name), Len(path))
                            = <<"/">> \o name

C8_Witness ==
  /\ PdfRunComplete
  /\ content.text = <<>>
  /\ RunRecords[1].content = <<>>
  /\ RunRecords[1].source # scraper.pdf_path

(* C9: records reach standard output one at a time: whenever item k is     *)
(* about to be fetched, the records of items 1..k-1 are written and none   *)
(* is held back, and while a record is held it is the only one; standard   *)
(* output only grows; the step in which a fetch or extraction raises       *)
(* writes nothing, leaves the records of the earlier items in place, and   *)
(* nothing is written after it.                                            *)
C9_StreamInv ==
  /\ pc = "item" => Len(RunRecords) = itemIdx - 1 /\ pending = NoRecord
  /\ pc = "emit" => Len(RunRecords) = itemIdx - 1 /\ pending # NoRecord

C9_StreamStep ==
  /\ IsPrefix(out, out')
  /\ pc = "crashed" => out' = out
  /\ (pc = "item" /\ pc' = "crashed") =>
       /\ out' = out
       /\ Len(RunRecords) = itemIdx - 1
       /\ \A k \in 1..(itemIdx - 1) : RecordOf(RunRecords[k], items[k])

C9_StreamingEmission == [](C9_StreamInv) /\ [][C9_StreamStep]_vars

C9_Witness ==
  /\ pc = "crashed"
  /\ itemIdx = 2
  /\ Len(RunRecords) = 1
  /\ Len(items) = 2

\* the paragraphs joined by a blank line, built from the right
RECURSIVE BlankLineJoined(_)
BlankLineJoined(ps) ==
  IF Len(ps) = 0 THEN <<>>
  ELSE IF Len(ps) = 1 THEN ps[1]
  ELSE BlankLineJoined(SubSeq(ps, 1, Len(ps) - 1)) \o <<"\n", "\n">> \o ps[Len(ps)]

(* C10: for every item page, whatever optional elements it has, the call   *)
(* of extract_content returns a record with all seven keys in which title  *)
(* is null exactly when there is no h1, author exactly when there is no    *)
(* .author element, date exactly when there is no time element with a      *)
(* datetime attribute, and content is the stripped paragraphs joined by a  *)
(* blank line (the empty string when there are none).                      *)
C10_OptionalFields ==
  pc = "unit_done" =>
    /\ DOMAIN pending = RecordKeys
    /\ pending.title = None <=> ~content.h1.present
    /\ content.h1.present => pending.title = Strip(content.h1.text)
    /\ pending.author = None <=> ~content.author.present
    /\ pending.date = None <=> ~(content.time.present /\ content.time.has_datetime)
    /\ (content.time.present /\ content.time.has_datetime)
         => pending.date = content.time.datetime
    /\ pending.content
         = BlankLineJoined([i \in 1..Len(content.paras) |-> Strip(content.paras[i])])
    /\ content.paras = <<>> => pending.content = <<>>
    /\ pending.url = items[1]

C10_Witness ==
  /\ pc = "unit_done"
  /\ ~content.h1.present
  /\ content.time.present /\ ~content.time.has_datetime
  /\ content.author.present
  /\ Len(content.paras) = 2
  /\ pending.title = None /\ pending.date = None /\ pending.author # None
=============================================================================
